---- MODULE Spec2Model ----
(***************************************************************************)
(* Model of the support-agent orchestrator: the graph of stages            *)
(* (src/agent/graph.py) over one run context, with the Plan sanitisation   *)
(* (src/ts_agent/nodes/plan/plan.py), the Coverage routing                 *)
(* (src/ts_agent/nodes/coverage/coverage.py), the Action stage             *)
(* (src/ts_agent/nodes/action/action.py) and the delivery pipeline         *)
(* (src/agent/nodes/{gather,validate,response,escalate,finalize}).         *)
(***************************************************************************)
EXTENDS Integers, Sequences, FiniteSets, TLC

(***************************************************************************)
(* Bounds of the model                                                     *)
(***************************************************************************)
\* longest tool-call list the planner LLM returns in the Plan harness
MaxPlanCalls == 2
\* cap on the number of Plan executions explored in one run
MaxPlanRuns == 4
\* number of times Finalize is run on one terminal state
MaxFinalizeRuns == 2

(***************************************************************************)
(* Program constants                                                       *)
(***************************************************************************)
DefaultMaxHops == 3
DefaultMaxActions == 1
\* retries of a rate-limited request of the messaging client
max_retries == 3

(***************************************************************************)
(* Values.  Python None is NoneVal; JSON booleans are "true"/"false".      *)
(***************************************************************************)
NoneVal == "None"
TrustedEmail == "alice@corp"
TrustedConversation == "conv-1"

TypeOf(v) ==
  IF v \in {"true", "false"} THEN "boolean"
  ELSE IF v = NoneVal THEN "null"
  ELSE "string"

ACTION_TOOL == "match_and_link_conversation_to_ticket"
DOCS_TOOL == "search_talent_docs"
APPS_TOOL == "get_user_applications"
\* a tool that takes no arguments, published with a closed, empty schema
NOARG_TOOL == "list_open_roles"

\* tools/list answer of the tool server: name and JSON schema of each tool
ToolServerCatalog ==
  << [name |-> APPS_TOOL,
      inputSchema |-> [properties |-> [user_email |-> "string"],
                       required |-> {"user_email"},
                       additionalProperties |-> FALSE]],
     [name |-> DOCS_TOOL,
      inputSchema |-> [properties |-> [query |-> "string"],
                       required |-> {"query"},
                       additionalProperties |-> TRUE]],
     [name |-> ACTION_TOOL,
      inputSchema |-> [properties |-> [conversation_id |-> "string", dry_run |-> "boolean"],
                       required |-> {"conversation_id"},
                       additionalProperties |-> TRUE]],
     [name |-> NOARG_TOOL,
      inputSchema |-> [properties |-> <<>>,
                       required |-> {},
                       additionalProperties |-> FALSE]] >>

\* initialize_node tags each tool with its type
assign_tool_type(tool_name) ==
  IF tool_name = ACTION_TOOL THEN "internal_action" ELSE "gather"

TagTools(catalog) ==
  [i \in 1..Len(catalog) |->
     [name |-> catalog[i].name,
      inputSchema |-> catalog[i].inputSchema,
      tool_type |-> assign_tool_type(catalog[i].name)]]

ToolNames(tools) == {tools[i].name : i \in 1..Len(tools)}

\* tools_map[tool_name]
ToolByName(tools, tool_name) ==
  tools[CHOOSE i \in 1..Len(tools) : tools[i].name = tool_name]

IsActionType(tool_type) == tool_type \in {"internal_action", "external_action"}

(***************************************************************************)
(* Plan: parameter sanitisation and validation                             *)
(***************************************************************************)
\* the trusted values, keyed by parameter name
injection_map(verified_email, conv_id, dry_run) ==
  [user_email |-> verified_email, conversation_id |-> conv_id, dry_run |-> dry_run]

\* a mutant that only fills in a trusted value the LLM left out
InjectedNamesIfAbsent(params, input_schema, inj) ==
  (DOMAIN input_schema.properties \cap DOMAIN inj) \ DOMAIN params

\* the names whose value the sanitiser overwrites
InjectedNames(params, input_schema, inj) ==
  DOMAIN input_schema.properties \cap DOMAIN inj

\* a mutant that keeps a replaced value under the name "original"
sanitize_tool_params_keeping_original(params, input_schema, inj) ==
  LET names == DOMAIN input_schema.properties \cap DOMAIN inj
      replaced == names \cap DOMAIN params
      keys == (DOMAIN params) \cup names \cup (IF replaced = {} THEN {} ELSE {"original"})
      sanitized == [n \in keys |->
                      IF n \in names THEN inj[n]
                      ELSE IF n = "original" /\ replaced # {}
                      THEN params[CHOOSE r \in replaced : TRUE]
                      ELSE params[n]]
      missing == {r \in input_schema.required :
                    r \notin DOMAIN sanitized \/ sanitized[r] = NoneVal}
  IN [ok |-> missing = {}, params |-> sanitized]

sanitize_tool_params(params, input_schema, inj) ==
  LET names == InjectedNames(params, input_schema, inj)
      sanitized == [n \in (DOMAIN params) \cup names |->
                      IF n \in names THEN inj[n] ELSE params[n]]
      missing == {r \in input_schema.required :
                    r \notin DOMAIN sanitized \/ sanitized[r] = NoneVal}
  IN [ok |-> missing = {}, params |-> sanitized]

\* jsonschema.validate(instance, schema)
SchemaValid(instance, schema) ==
  /\ schema.required \subseteq DOMAIN instance
  /\ \A n \in DOMAIN instance \cap DOMAIN schema.properties :
        TypeOf(instance[n]) = schema.properties[n]
  /\ schema.additionalProperties \/ DOMAIN instance \subseteq DOMAIN schema.properties

RECURSIVE validate_and_sanitize_plan(_, _, _, _, _)
validate_and_sanitize_plan(tool_calls, tools, verified_email, conv_id, dry_run) ==
  IF tool_calls = <<>> THEN <<>>
  ELSE
    LET tc == Head(tool_calls)
        rest == validate_and_sanitize_plan(Tail(tool_calls), tools, verified_email, conv_id, dry_run)
    IN IF tc.tool_name \notin ToolNames(tools) THEN rest
       ELSE
         LET input_schema == ToolByName(tools, tc.tool_name).inputSchema
             s == sanitize_tool_params(tc.parameters, input_schema,
                                       injection_map(verified_email, conv_id, dry_run))
         IN IF ~s.ok THEN rest
            ELSE IF DOMAIN input_schema.properties # {} /\ ~SchemaValid(s.params, input_schema)
                 THEN rest
            ELSE <<[tool_name |-> tc.tool_name, parameters |-> s.params]>> \o rest

\* a mutant that leaves the action calls in the gather list
SelectCallsKeepingActions(calls, tools, wantAction) ==
  IF wantAction
  THEN SelectSeq(calls, LAMBDA c : IsActionType(ToolByName(tools, c.tool_name).tool_type))
  ELSE calls

\* partition of the retained calls by tool type
SelectCalls(calls, tools, wantAction) ==
  SelectSeq(calls, LAMBDA c : IsActionType(ToolByName(tools, c.tool_name).tool_type) = wantAction)

(***************************************************************************)
(* What the planner LLM may return                                         *)
(***************************************************************************)
ParamNames == {"user_email", "conversation_id", "dry_run", "query"}

\* values the LLM may put under each name ("true" under query has the wrong type)
LLMValues(n) ==
  CASE n = "user_email" -> {"mallory@evil"}
    [] n = "conversation_id" -> {"conv-9"}
    [] n = "dry_run" -> {"false"}
    [] n = "query" -> {"q", "true"}

LLMParams ==
  UNION { {p \in [S -> {"mallory@evil", "conv-9", "false", "q", "true"}] :
             \A n \in S : p[n] \in LLMValues(n)} :
          S \in {T \in SUBSET ParamNames : Cardinality(T) <= 2} }

LLMToolNames == {APPS_TOOL, DOCS_TOOL, ACTION_TOOL, NOARG_TOOL, "no_such_tool"}

LLMCalls == {[tool_name |-> t, parameters |-> p] : t \in LLMToolNames, p \in LLMParams}

SeqsUpTo(S, n) == UNION {[1..k -> S] : k \in 0..n}

HarnessPlans == SeqsUpTo(LLMCalls, MaxPlanCalls)

\* the plans the planner LLM returns during a run of the graph
RunPlans ==
  LET gA == [tool_name |-> APPS_TOOL, parameters |-> [user_email |-> "mallory@evil"]]
      gD == [tool_name |-> DOCS_TOOL, parameters |-> [query |-> "q", user_email |-> "mallory@evil"]]
      aT == [tool_name |-> ACTION_TOOL, parameters |-> [conversation_id |-> "conv-9"]]
  IN { <<>>, <<gD, aT>> }

(***************************************************************************)
(* The run context (state) and the environment                             *)
(***************************************************************************)
VARIABLES
  pc,                 \* the stage the graph executes next
  env,                \* process environment: which variables are set, DRY_RUN
  conversation_id, user_email, melvin_admin_id, conv_loaded,
  available_tools, hops, max_hops, max_actions, actions_taken, actions,
  next_node, error, escalation_reason, response,
  initialize, draft, validate, response_delivery, escalate, finalize,
  tool_data, docs_data,
  server_calls,       \* the tools/call requests sent to the tool server so far, by stage and hop
  posts,              \* writes requested from the messaging platform, in order
  cov_llm,            \* what the coverage LLM returned to the latest Coverage execution
  plan_llm,           \* what the planner LLM returned to the latest Plan execution
  plan_runs,          \* number of Plan executions so far
  executed,           \* the stages executed so far
  last_stage,         \* the stage executed last
  request,            \* a call of the messaging client: the answers seen, its result
  pool,               \* the evaluation harness: conversation ids, tasks of the pool, rows
  factory             \* a call of the tool-server client factory: arguments, environment, result

vars == << pc, env, conversation_id, user_email, melvin_admin_id, conv_loaded,
           available_tools, hops, max_hops, max_actions, actions_taken, actions,
           next_node, error, escalation_reason, response,
           initialize, draft, validate, response_delivery, escalate, finalize,
           tool_data, docs_data, server_calls, posts, cov_llm, plan_llm,
           plan_runs, executed, last_stage, request, pool, factory >>

identity_vars == << env, conversation_id, user_email, melvin_admin_id, conv_loaded,
                    available_tools, request, pool, factory >>
budget_vars == << max_hops, max_actions >>
record_vars == << initialize, draft, validate, response_delivery, escalate, finalize >>
data_vars == << tool_data, docs_data >>

UNSET == "unset"        \* the key is absent from the state dict
NO_ERROR == "None"

\* no call of the messaging client is being followed
NoRequest == [seen |-> <<>>, result |-> "none"]

\* the run was not started by the evaluation harness
NoPool == [phase |-> "none"]

\* no call of the client factory is being followed
NoFactory == [phase |-> "none"]

Ran(stage) ==
  /\ executed' = executed \cup {stage}
  /\ last_stage' = stage

\* the state handed to the graph by run_agent_with_conversation_id
RunnerState(cid, e) ==
  /\ pc = "initialize"
  /\ env = e
  /\ conversation_id = cid
  /\ user_email = UNSET
  /\ melvin_admin_id = UNSET
  /\ conv_loaded = FALSE
  /\ available_tools = <<>>
  /\ hops = <<>>
  /\ max_hops = 0
  /\ max_actions = 0
  /\ actions_taken = 0
  /\ actions = <<>>
  /\ next_node = UNSET
  /\ error = NO_ERROR
  /\ escalation_reason = UNSET
  /\ response = ""
  /\ initialize = <<>>
  /\ draft = <<>>
  /\ validate = <<>>
  /\ response_delivery = <<>>
  /\ escalate = <<>>
  /\ finalize = <<>>
  /\ tool_data = <<>>
  /\ docs_data = <<>>
  /\ server_calls = {}
  /\ posts = <<>>
  /\ cov_llm = <<>>
  /\ plan_llm = <<>>
  /\ plan_runs = 0
  /\ executed = {}
  /\ last_stage = "start"
  /\ request = NoRequest
  /\ pool = NoPool
  /\ factory = NoFactory

Environments ==
  [INTERCOM_API_KEY : BOOLEAN, MELVIN_ADMIN_ID : BOOLEAN, DRY_RUN : {"true", "false"}]

Init ==
  \E cid \in {TrustedConversation, ""}, e \in Environments :
    e.DRY_RUN = "true" /\ RunnerState(cid, e)

(***************************************************************************)
(* Initialize                                                              *)
(***************************************************************************)
\* a mutant that goes on to Plan whatever Initialize reported
route_from_initialize_always_plan(err) == "plan"

route_from_initialize(err) == IF err # NO_ERROR THEN "escalate" ELSE "plan"

\* what the platform returns for the conversation: the fetch fails, or it
\* yields the contact's email (None when unknown) and whether there is any
\* message or subject
ConversationFetches ==
  {[ok |-> FALSE, has_content |-> FALSE, email |-> NoneVal]}
    \cup {[ok |-> TRUE, has_content |-> c, email |-> m] :
            c \in BOOLEAN, m \in {TrustedEmail}}

InitializeNode ==
  /\ pc = "initialize"
  /\ Ran("initialize")
  /\ UNCHANGED << env, conversation_id, request, pool, factory, actions, next_node,
                  draft, validate, response_delivery, escalate, finalize,
                  data_vars, server_calls, posts, cov_llm, plan_llm, plan_runs >>
  /\ IF conversation_id = ""
     THEN /\ error' = "conversation_id is required"
          /\ initialize' = <<[success |-> FALSE]>>
          /\ UNCHANGED << user_email, melvin_admin_id, conv_loaded, available_tools, hops,
                          max_hops, max_actions, actions_taken, escalation_reason, response >>
     ELSE
       /\ melvin_admin_id' = IF env.MELVIN_ADMIN_ID THEN "admin-1" ELSE UNSET
       /\ \E fetch \in ConversationFetches, catalog_ok \in BOOLEAN :
            LET conv_ok == env.INTERCOM_API_KEY /\ fetch.ok /\ fetch.has_content
                tools_ok == conv_ok /\ catalog_ok
                \* InitializeData requires melvin_admin_id to be a string
                success == tools_ok /\ env.MELVIN_ADMIN_ID
            IN /\ conv_loaded' = conv_ok
               /\ user_email' = IF conv_ok THEN fetch.email ELSE user_email
               /\ available_tools' = IF tools_ok THEN TagTools(ToolServerCatalog) ELSE <<>>
               /\ max_hops' = IF tools_ok THEN DefaultMaxHops ELSE max_hops
               /\ max_actions' = IF tools_ok THEN DefaultMaxActions ELSE max_actions
               /\ UNCHANGED << hops, actions_taken >>
               /\ initialize' = <<[success |-> success]>>
               /\ error' = IF success THEN NO_ERROR ELSE "Initialization failed"
               /\ escalation_reason' = IF success THEN escalation_reason ELSE "Initialization failed"
               /\ response' = IF success THEN "" ELSE "apology"
  /\ pc' = route_from_initialize(error')

(***************************************************************************)
(* Plan                                                                    *)
(***************************************************************************)
PlanRecord(tool_calls, tools) ==
  [tool_calls |-> tool_calls,
   gather_tool_calls |-> SelectCalls(tool_calls, tools, FALSE),
   action_tool_calls |-> SelectCalls(tool_calls, tools, TRUE)]

\* plan_node, the planner LLM answering with a plan of llm_plans or failing
PlanNodeOver(llm_plans) ==
  /\ pc = "plan"
  /\ plan_runs < MaxPlanRuns
  /\ plan_runs' = plan_runs + 1
  /\ Ran("plan")
  /\ UNCHANGED << identity_vars, budget_vars, actions_taken, actions, response,
                  record_vars, data_vars, server_calls, posts, cov_llm >>
  /\ IF ~conv_loaded
     THEN \* build_conversation_and_user_context raises ValueError
          /\ error' = "No conversation messages or subject found in state"
          /\ plan_llm' = <<>>
          /\ UNCHANGED << hops, next_node, escalation_reason >>
     ELSE
       \/ \* the LLM call or the prompt rendering fails
          /\ error' = "Plan generation failed"
          /\ escalation_reason' = "Plan generation failed"
          /\ next_node' = "escalate"
          /\ plan_llm' = <<>>
          /\ UNCHANGED hops
       \/ \E p \in llm_plans :
            LET validated == validate_and_sanitize_plan(p, available_tools, user_email,
                                                        conversation_id, env.DRY_RUN)
            IN /\ hops' = Append(hops, [hop_number |-> Len(hops) + 1,
                                        plan |-> PlanRecord(validated, available_tools),
                                        gather |-> <<>>,
                                        coverage |-> <<>>])
               /\ plan_llm' = <<p>>
               /\ UNCHANGED << error, next_node, escalation_reason >>
  \* g.add_edge("plan", "gather")
  /\ pc' = "gather"

PlanNode == PlanNodeOver(RunPlans)

(***************************************************************************)
(* Gather                                                                  *)
(***************************************************************************)
\* the calls the Gather stage sends to the tool server for a hop's plan
GatherCalls(plan) == plan.tool_calls

\* what the tool server answers to the calls of one hop, per call "data"
\* (content), "empty" (no content) or "error": all answer with content, or
\* the first one fails
ToolOutcomes(n) ==
  {[i \in 1..n |-> "data"], [i \in 1..n |-> IF i = 1 THEN "error" ELSE "data"]}

\* the query a documentation search echoes in its answer
echoed_query(call) ==
  IF "query" \in DOMAIN call.parameters THEN call.parameters.query ELSE "unknown_query"

\* mcp_client.call_tool returns the content list of the answer; a content is
\* named by the hop and the position of its call and carries the echoed query
payload(outcome, h, i, call) ==
  IF outcome = "data" THEN <<[hop |-> h, call |-> i, query |-> echoed_query(call)]>> ELSE <<>>

\* a mutant that stops at the first failed call
tool_results_until_failure(calls, outcome, h) ==
  LET failed == {i \in 1..Len(calls) : outcome[i] = "error"}
      n == IF failed = {} THEN Len(calls)
           ELSE CHOOSE i \in failed : \A j \in failed : i <= j
  IN [i \in 1..n |->
        [tool_name |-> calls[i].tool_name,
         success |-> outcome[i] # "error",
         data |-> payload(outcome[i], h, i, calls[i]),
         error |-> IF outcome[i] = "error" THEN "Tool execution failed" ELSE NoneVal]]

\* the ToolResult records of a hop, one per call; data is <<>> both for an
\* empty content list and for the None of a failed call
tool_results(calls, outcome, h) ==
  [i \in 1..Len(calls) |->
     [tool_name |-> calls[i].tool_name,
      success |-> outcome[i] # "error",
      data |-> payload(outcome[i], h, i, calls[i]),
      error |-> IF outcome[i] = "error" THEN "Tool execution failed" ELSE NoneVal]]

RECURSIVE store_tool_data(_, _)
\* the storage loop over the results: state["tool_data"][tool_name] = data
store_tool_data(results, td) ==
  IF results = <<>> THEN td
  ELSE LET r == Head(results)
           stored == IF r.success /\ r.data # <<>> /\ r.tool_name # DOCS_TOOL
                     THEN [t \in DOMAIN td \cup {r.tool_name} |->
                             IF t = r.tool_name THEN r.data ELSE td[t]]
                     ELSE td
       IN store_tool_data(Tail(results), stored)

\* outcomes maps a number of calls to the answers the tool server may give
RECURSIVE store_docs_data(_, _, _)
\* the storage loop over the results: state["docs_data"]["<query> (hop N)"] = data;
\* the key is the pair of the query and the hop number
store_docs_data(results, dd, h) ==
  IF results = <<>> THEN dd
  ELSE LET r == Head(results)
           key == <<r.data[1].query, h>>
           stored == IF r.success /\ r.data # <<>> /\ r.tool_name = DOCS_TOOL
                     THEN [k \in DOMAIN dd \cup {key} |-> IF k = key THEN r.data ELSE dd[k]]
                     ELSE dd
       IN store_docs_data(Tail(results), stored, h)

GatherNodeOver(outcomes) ==
  /\ pc = "gather"
  /\ Ran("gather")
  /\ UNCHANGED << identity_vars, budget_vars, actions_taken, actions, response,
                  record_vars, posts, cov_llm, plan_llm, plan_runs >>
  /\ IF hops = <<>>
     THEN /\ error' = "No current hop data found"
          /\ UNCHANGED << hops, next_node, escalation_reason, data_vars, server_calls >>
     ELSE
       LET h == Len(hops)
           calls == GatherCalls(hops[h].plan)
       IN IF calls = <<>>
          THEN /\ hops' = [hops EXCEPT ![h].gather =
                             <<[tool_results |-> <<>>,
                                success_rate |-> [num |-> 1, den |-> 1],
                                execution_status |-> "completed"]>>]
               /\ UNCHANGED << error, next_node, escalation_reason, data_vars, server_calls >>
          ELSE
            \/ \* an exception outside the per-call try
               /\ error' = "Gather node error"
               /\ escalation_reason' = "Gather node error"
               /\ next_node' = "escalate"
               /\ UNCHANGED << hops, data_vars, server_calls >>
            \/ \E outcome \in outcomes[Len(calls)] :
                 LET results == tool_results(calls, outcome, h)
                     good == {i \in 1..Len(results) : results[i].success}
                 IN /\ server_calls' = server_calls \cup
                          {[stage |-> "gather", hop |-> h, tool_name |-> calls[i].tool_name,
                            parameters |-> calls[i].parameters] : i \in 1..Len(results)}
                    /\ hops' = [hops EXCEPT ![h].gather =
                                  <<[tool_results |-> results,
                                     success_rate |-> [num |-> Cardinality(good), den |-> Len(calls)],
                                     execution_status |-> "completed"]>>]
                    /\ tool_data' = store_tool_data(results, tool_data)
                    /\ docs_data' = store_docs_data(results, docs_data, h)
                    /\ UNCHANGED << error, next_node, escalation_reason >>
  \* g.add_edge("gather", "coverage")
  /\ pc' = "coverage"

GatherNode == GatherNodeOver([n \in 0..MaxPlanCalls |-> ToolOutcomes(n)])

(***************************************************************************)
(* Coverage                                                                *)
(***************************************************************************)
MaxHopsReason == "Exceeded maximum hops. Unable to gather sufficient data."
HumanReason == "User requested to talk to a human"
LLMReason == "Cannot answer from the available data"

PolicyReason == "Validation failed: Policy violations"
PolicyHumanReason == "Validation failed: Policy violations: user requested to talk to a human"

\* "requested to talk to a human" in reason.lower()
HasHumanPhrase(reason) == reason \in {HumanReason, PolicyHumanReason}

\* structured outputs of the coverage LLM: next_action is a free string
\* ("respond" is none of the four the stage knows); action_decision is None
\* or names a tool.  gather_more comes with data_sufficient = TRUE: with
\* FALSE it routes the same below max_hops and is rewritten by
\* _analyze_coverage at max_hops, like the other outputs with FALSE
CoverageOutputs ==
  {[data_sufficient |-> d, next_action |-> "continue", escalation_reason |-> NoneVal,
    action_decision |-> NoneVal] : d \in BOOLEAN}
  \cup
  {[data_sufficient |-> TRUE, next_action |-> "gather_more", escalation_reason |-> NoneVal,
    action_decision |-> NoneVal]}
  \cup
  {[data_sufficient |-> TRUE, next_action |-> "respond", escalation_reason |-> NoneVal,
    action_decision |-> NoneVal]}
  \cup
  {[data_sufficient |-> FALSE, next_action |-> "escalate", escalation_reason |-> r,
    action_decision |-> NoneVal] :
       r \in {NoneVal, LLMReason, HumanReason}}
  \cup
  {[data_sufficient |-> TRUE, next_action |-> "execute_action", escalation_reason |-> NoneVal,
    action_decision |-> t] :
       t \in {NoneVal, ACTION_TOOL}}

\* a mutant that lets one more hop through
hop_limit_exceeded(hop_number, maxh) == hop_number > maxh

\* the check of coverage_node before it routes back to Plan
hop_limit_reached(hop_number, maxh) == hop_number >= maxh

\* a mutant that lets one more action through
action_budget_exceeded(taken, maxa) == taken > maxa

\* the check of coverage_node before it routes to Action
action_budget_exhausted(taken, maxa) == taken >= maxa

\* a mutant without the override on insufficient data
analyze_coverage_no_override(out, hop_number, maxh) == out

\* _analyze_coverage: the LLM output after the max-hops override
analyze_coverage(out, hop_number, maxh) ==
  IF ~out.data_sufficient /\ hop_number >= maxh
  THEN [out EXCEPT !.next_action = "escalate", !.escalation_reason = MaxHopsReason]
  ELSE out

\* a mutant that accepts the action tool whether Plan proposed it or not
PlannedNamesUnchecked(planned_action_tools) == {ACTION_TOOL}

\* the names coverage_node looks the decision up in
PlannedNames(planned_action_tools) ==
  {planned_action_tools[i].tool_name : i \in 1..Len(planned_action_tools)}

KEEP == "keep"   \* the routing branch assigns nothing

\* the routing branch of coverage_node: the response as stored, the value
\* written to next_node and to escalation_reason (KEEP when not written)
coverage_route(r, hop_number, maxh, taken, maxa, planned_action_tools) ==
  CASE r.next_action = "gather_more" ->
         IF hop_limit_reached(hop_number, maxh)
         THEN [response |-> [r EXCEPT !.next_action = "escalate",
                                      !.escalation_reason = MaxHopsReason],
               next_node |-> "escalate", reason |-> MaxHopsReason]
         ELSE [response |-> r, next_node |-> "plan", reason |-> KEEP]
    [] r.next_action = "execute_action" ->
         IF action_budget_exhausted(taken, maxa)
         THEN [response |-> r, next_node |-> "respond", reason |-> KEEP]
         ELSE IF r.action_decision = NoneVal
         THEN [response |-> r, next_node |-> "respond", reason |-> KEEP]
         ELSE IF r.action_decision \notin PlannedNames(planned_action_tools)
         THEN [response |-> r, next_node |-> "respond", reason |-> KEEP]
         ELSE [response |-> r, next_node |-> "action", reason |-> KEEP]
    [] r.next_action = "continue" ->
         [response |-> r, next_node |-> "respond", reason |-> KEEP]
    [] r.next_action = "escalate" ->
         [response |-> r, next_node |-> "escalate", reason |-> r.escalation_reason]
    [] OTHER ->
         [response |-> r, next_node |-> KEEP, reason |-> KEEP]

\* route_from_coverage of the graph
route_from_coverage(nn) ==
  IF nn = "plan" THEN "plan"
  ELSE IF nn = "respond" THEN "draft"
  ELSE IF nn = "escalate" THEN "escalate"
  ELSE "end"

\* the graph with the Action stage: Coverage hands over to Action
route_from_coverage_with_action(nn) ==
  IF nn = "action" THEN "action" ELSE route_from_coverage(nn)

CoverageNode ==
  /\ pc = "coverage"
  /\ Ran("coverage")
  /\ UNCHANGED << identity_vars, budget_vars, actions_taken, actions, response,
                  record_vars, data_vars, server_calls, posts, plan_llm, plan_runs >>
  /\ IF hops = <<>>
     THEN /\ error' = "No current hop data found"
          /\ cov_llm' = <<>>
          /\ UNCHANGED << hops, next_node, escalation_reason >>
     ELSE IF ~conv_loaded
     THEN /\ error' = "No conversation messages or subject found in state"
          /\ cov_llm' = <<>>
          /\ UNCHANGED << hops, next_node, escalation_reason >>
     ELSE
       \/ \* the prompt fetch or the LLM call fails
          /\ error' = "Coverage analysis failed"
          /\ next_node' = "escalate"
          /\ escalation_reason' = "Coverage analysis failed"
          /\ cov_llm' = <<>>
          /\ UNCHANGED hops
       \/ \E out \in CoverageOutputs :
            LET h == Len(hops)
                hop_number == hops[h].hop_number
                r == analyze_coverage(out, hop_number, max_hops)
                route == coverage_route(r, hop_number, max_hops, actions_taken, max_actions,
                                        hops[h].plan.action_tool_calls)
            IN /\ cov_llm' = <<out>>
               /\ next_node' = IF route.next_node = KEEP THEN next_node ELSE route.next_node
               /\ escalation_reason' = IF route.reason = KEEP THEN escalation_reason
                                       ELSE route.reason
               /\ hops' = [hops EXCEPT ![h].coverage =
                             <<[coverage_response |-> route.response,
                                next_node |-> IF next_node' = UNSET THEN "end" ELSE next_node']>>]
               /\ UNCHANGED error
  /\ pc' = route_from_coverage_with_action(next_node')

(***************************************************************************)
(* Action                                                                  *)
(***************************************************************************)
\* a mutant whose notes are replies
add_note_message_type_comment == "comment"

\* the message_type of the payload of IntercomClient.add_note: internal
add_note_message_type == "note"

\* the message_type of the payload of IntercomClient.send_message: visible
\* to the user
send_message_message_type == "comment"

\* next(tool for tool in planned_action_tools if tool_name matches, None)
FirstMatch(planned_action_tools, name) ==
  LET idx == {i \in 1..Len(planned_action_tools) : planned_action_tools[i].tool_name = name}
  IN IF idx = {} THEN <<>>
     ELSE <<planned_action_tools[CHOOSE i \in idx : \A j \in idx : i <= j]>>

\* a mutant that rebuilds the parameters instead of taking Plan's
action_tool_params_from_decision(action_tool_from_plan, action_decision) ==
  [conversation_id |-> TrustedConversation]

\* the parameters the Action stage sends: those of Plan's call
action_tool_params(action_tool_from_plan, action_decision) ==
  action_tool_from_plan.parameters

\* a mutant that counts an execution twice
count_action_twice(taken) == taken + 2

\* the increment of the counter by one Action execution
count_action(taken) == taken + 1

\* the graph after Action: back to Coverage on success, else Escalate
route_from_action(nn) == IF nn = "coverage" THEN "coverage" ELSE "escalate"

\* a mutant that returns to Coverage whatever the outcome of the tool
action_next_node_always_coverage(success) == "coverage"

\* the value action_node writes to next_node after invoking the tool
action_next_node(success) == IF success THEN "coverage" ELSE "escalate"

\* the error of a failed action call, as _execute_action_tool raises it
ActionError == "Action tool execution failed"

\* f"Action tool failed: {action_tool_name}. Error: {error_msg}. Human review required."
action_failure_reason(tool_name, error_msg) ==
  IF tool_name = ACTION_TOOL /\ error_msg = ActionError
  THEN "Action tool failed: match_and_link_conversation_to_ticket. Error: Action tool execution failed. Human review required."
  ELSE "Action tool failed"

ActionNode ==
  /\ pc = "action"
  /\ Ran("action")
  /\ UNCHANGED << identity_vars, budget_vars, hops, response, record_vars, data_vars,
                  cov_llm, plan_llm, plan_runs >>
  /\ LET h == Len(hops)
         coverage_response == IF h = 0 \/ hops[h].coverage = <<>> THEN <<>>
                              ELSE <<hops[h].coverage[1].coverage_response>>
         action_decision == IF coverage_response = <<>> THEN NoneVal
                            ELSE coverage_response[1].action_decision
         found == IF h = 0 THEN <<>>
                  ELSE FirstMatch(hops[h].plan.action_tool_calls, action_decision)
     IN IF h = 0 \/ coverage_response = <<>> \/ action_decision = NoneVal \/ found = <<>>
        THEN \* the early returns: only state.error is written
             /\ error' = "Action stage: nothing to execute"
             /\ UNCHANGED << actions, actions_taken, next_node, escalation_reason,
                             server_calls, posts >>
        ELSE
          \E success \in BOOLEAN, note_ok \in BOOLEAN :
            LET params == action_tool_params(found[1], action_decision)
            IN /\ server_calls' = server_calls \cup
                     {[stage |-> "action", hop |-> h, tool_name |-> action_decision,
                       parameters |-> params]}
               /\ actions' = Append(actions,
                     [hop_number |-> hops[h].hop_number, tool_name |-> action_decision,
                      success |-> success])
               /\ actions_taken' = count_action(actions_taken)
               /\ posts' = IF melvin_admin_id # UNSET /\ env.INTERCOM_API_KEY
                           THEN Append(posts, [stage |-> "action", kind |-> add_note_message_type,
                                               acked |-> note_ok])
                           ELSE posts
               /\ next_node' = action_next_node(success)
               /\ escalation_reason' = IF success THEN escalation_reason
                                       ELSE action_failure_reason(action_decision, ActionError)
               /\ UNCHANGED error
  /\ pc' = route_from_action(next_node')

(***************************************************************************)
(* Draft                                                                   *)
(***************************************************************************)
\* structured outputs of the drafter LLM
DraftOutputs ==
  {[response |-> "reply text", response_type |-> "REPLY", escalation_reason |-> NoneVal],
   [response |-> "", response_type |-> "REPLY", escalation_reason |-> NoneVal],
   [response |-> "a teammate will follow up", response_type |-> "ROUTE_TO_TEAM",
    escalation_reason |-> HumanReason]}

route_from_draft(nn) == IF nn = "escalate" THEN "escalate" ELSE "validate"

\* a mutant that sends a ROUTE_TO_TEAM draft straight to Escalate
draft_next_node_escalating(response_type) ==
  IF response_type = "ROUTE_TO_TEAM" THEN "escalate" ELSE "validate"

\* the value draft_node writes to next_node after a generated draft: both
\* branches write "validate"
draft_next_node(response_type) ==
  IF response_type = "ROUTE_TO_TEAM" THEN "validate" ELSE "validate"

DraftNode ==
  /\ pc = "draft"
  /\ Ran("draft")
  /\ UNCHANGED << identity_vars, budget_vars, hops, actions_taken, actions,
                  initialize, validate, response_delivery, escalate, finalize,
                  data_vars, server_calls, posts, cov_llm, plan_llm, plan_runs >>
  /\ IF ~conv_loaded
     THEN /\ error' = "No conversation messages or subject found in state"
          /\ next_node' = "escalate"
          /\ escalation_reason' = "No conversation messages or subject found in state"
          /\ UNCHANGED << draft, response >>
     ELSE
       \/ \* the LLM call or the prompt rendering fails
          /\ draft' = <<[response |-> "", response_type |-> "REPLY",
                         escalation_reason |-> NoneVal]>>
          /\ error' = "Draft generation failed"
          /\ next_node' = "escalate"
          /\ escalation_reason' = "Draft generation error"
          /\ UNCHANGED response
       \/ \E out \in DraftOutputs :
            /\ draft' = <<out>>
            /\ response' = out.response
            /\ next_node' = draft_next_node(out.response_type)
            /\ escalation_reason' = IF out.response_type = "ROUTE_TO_TEAM"
                                    THEN out.escalation_reason ELSE escalation_reason
            /\ UNCHANGED error
  /\ pc' = route_from_draft(next_node')

(***************************************************************************)
(* Validate                                                                *)
(***************************************************************************)
\* what the policy service answers: no usable answer, or a verdict with the
\* escalation reason the stage builds from it
ValidationOutcomes ==
  {[answered |-> FALSE, overall_passed |-> FALSE, reason |-> "Validation error"],
   [answered |-> TRUE, overall_passed |-> TRUE, reason |-> NoneVal],
   [answered |-> TRUE, overall_passed |-> FALSE, reason |-> PolicyReason],
   [answered |-> TRUE, overall_passed |-> FALSE, reason |-> PolicyHumanReason]}

route_from_validate(nn) ==
  IF nn = "response" THEN "response"
  ELSE IF nn = "escalate" THEN "escalate"
  ELSE "end"

\* a mutant that delivers whatever the verdict
validate_next_node_always_response(overall_passed) == "response"

\* the routing decision of validate_node on a parsed verdict
validate_next_node(overall_passed) == IF overall_passed THEN "response" ELSE "escalate"

\* the answers of the platform to a note, an attribute update or a snooze:
\* TRUE is a payload, FALSE the None of a failed request
Acknowledged == {TRUE}
AnyAnswer == BOOLEAN

\* acks is the set of answers the platform may give to the note
ValidateNodeOver(acks) ==
  /\ pc = "validate"
  /\ Ran("validate")
  /\ UNCHANGED << identity_vars, budget_vars, hops, actions_taken, actions, error, response,
                  initialize, draft, response_delivery, escalate, finalize,
                  data_vars, server_calls, cov_llm, plan_llm, plan_runs >>
  /\ \E v \in ValidationOutcomes, note_ok \in acks :
       \* an empty reply is not sent to the service: ValueError
       LET answered == v.answered /\ response # ""
           passed == answered /\ v.overall_passed
           note_tried == answered /\ conversation_id # "" /\ melvin_admin_id # UNSET
                           /\ env.INTERCOM_API_KEY
           nn == IF answered THEN validate_next_node(v.overall_passed) ELSE "escalate"
           reason == IF answered THEN v.reason ELSE "Validation error"
       IN /\ (~note_tried => note_ok)
          /\ posts' = IF note_tried
                      THEN Append(posts, [stage |-> "validate", kind |-> add_note_message_type,
                                          acked |-> note_ok])
                      ELSE posts
          /\ validate' = <<[overall_passed |-> passed,
                            validation_note_added |-> note_tried,
                            next_action |-> nn,
                            escalation_reason |-> IF passed THEN NoneVal ELSE reason]>>
          /\ next_node' = nn
          /\ escalation_reason' = IF nn = "response" /\ passed THEN escalation_reason ELSE reason
  /\ pc' = route_from_validate(next_node')

ValidateNode == ValidateNodeOver(Acknowledged)

(***************************************************************************)
(* Response                                                                *)
(***************************************************************************)
ResponseNode ==
  /\ pc = "response"
  /\ Ran("response")
  /\ UNCHANGED << identity_vars, budget_vars, hops, actions_taken, actions, response,
                  initialize, draft, validate, escalate, finalize,
                  data_vars, server_calls, cov_llm, plan_llm, plan_runs >>
  /\ \E sent_ok \in BOOLEAN :
       LET can_send == response # "" /\ conversation_id # "" /\ melvin_admin_id # UNSET
                         /\ env.INTERCOM_API_KEY
           delivered == can_send /\ sent_ok
           should_escalate == draft # <<>> /\ draft[1].response_type = "ROUTE_TO_TEAM"
       IN /\ (~can_send => sent_ok)
          /\ posts' = IF can_send
                      THEN Append(posts, [stage |-> "response", kind |-> send_message_message_type,
                                          acked |-> sent_ok])
                      ELSE posts
          /\ response_delivery' = <<[success |-> delivered, intercom_delivered |-> delivered]>>
          /\ error' = IF delivered THEN error ELSE "Failed to deliver response"
          /\ escalation_reason' = IF delivered THEN escalation_reason
                                  ELSE "Failed to deliver response"
          /\ next_node' = IF ~delivered THEN "escalate"
                          ELSE IF should_escalate THEN "escalate"
                          ELSE "finalize"
  \* g.add_edge("response", "finalize")
  /\ pc' = "finalize"

(***************************************************************************)
(* Escalate                                                                *)
(***************************************************************************)
\* _determine_escalation_source.  Two of its tests never succeed on the
\* records the stages write: the hop's coverage record has the keys
\* coverage_response and next_node, so coverage.get("next_action") is None,
\* and the draft record carries no error key
determine_escalation_source(validate_data, hops_array, draft_data, err) ==
  IF validate_data # <<>> /\ ~validate_data[1].overall_passed THEN "validate"
  ELSE IF err # NO_ERROR /\ hops_array = <<>> THEN "initialization"
  ELSE "unknown"

\* a mutant that follows the next_node Escalate wrote
route_from_escalate_by_next_node(nn) == IF nn = "finalize" THEN "finalize" ELSE "end"

\* g.add_edge("escalate", "finalize")
route_from_escalate(nn) == "finalize"

EscalateNodeOver(acks) ==
  /\ pc = "escalate"
  /\ Ran("escalate")
  /\ UNCHANGED << identity_vars, budget_vars, hops, actions_taken, actions, error, response,
                  escalation_reason, initialize, draft, validate, response_delivery, finalize,
                  data_vars, server_calls, cov_llm, plan_llm, plan_runs >>
  /\ \E note_ok \in acks :
       LET ids == conversation_id # "" /\ melvin_admin_id # UNSET
           posted == ids /\ env.INTERCOM_API_KEY
       IN /\ (~posted => note_ok)
          /\ posts' = IF posted
                      THEN Append(posts, [stage |-> "escalate", kind |-> add_note_message_type,
                                          acked |-> note_ok])
                      ELSE posts
          /\ escalate' = <<[escalation_reason |-> IF escalation_reason = UNSET
                                                  THEN "Unknown escalation reason"
                                                  ELSE escalation_reason,
                            escalation_source |->
                               determine_escalation_source(validate, hops, draft, error),
                            note_added |-> posted]>>
          /\ next_node' = IF ids THEN "finalize" ELSE "end"
  /\ pc' = route_from_escalate(next_node')

EscalateNode == EscalateNodeOver(Acknowledged)

(***************************************************************************)
(* Finalize                                                                *)
(***************************************************************************)
\* a mutant that reports error once a finalize record exists
determine_melvin_status_once(draft_data, escalate_data, reason, delivery) ==
  IF finalize # <<>> THEN "error"
  ELSE IF draft_data # <<>> /\ draft_data[1].response_type = "ROUTE_TO_TEAM" THEN "route_to_team"
  ELSE IF escalate_data # <<>>
  THEN IF HasHumanPhrase(reason) THEN "route_to_team"
       ELSE IF escalate_data[1].escalation_source = "validate" THEN "validation_failed"
       ELSE IF escalate_data[1].escalation_source = "draft" THEN "response_failed"
       ELSE IF escalate_data[1].escalation_source = "coverage" THEN "route_to_team"
       ELSE "error"
  ELSE IF delivery # <<>>
  THEN IF delivery[1].intercom_delivered THEN "success" ELSE "message_failed"
  ELSE "error"

\* _determine_melvin_status; reason is state.get("escalation_reason", "")
determine_melvin_status(draft_data, escalate_data, reason, delivery) ==
  IF draft_data # <<>> /\ draft_data[1].response_type = "ROUTE_TO_TEAM" THEN "route_to_team"
  ELSE IF escalate_data # <<>>
  THEN IF HasHumanPhrase(reason) THEN "route_to_team"
       ELSE IF escalate_data[1].escalation_source = "validate" THEN "validation_failed"
       ELSE IF escalate_data[1].escalation_source = "draft" THEN "response_failed"
       ELSE IF escalate_data[1].escalation_source = "coverage" THEN "route_to_team"
       ELSE "error"
  ELSE IF delivery # <<>>
  THEN IF delivery[1].intercom_delivered THEN "success" ELSE "message_failed"
  ELSE "error"

\* None.lower() raises: the label cannot be computed
StatusRaises(draft_data, escalate_data, reason) ==
  /\ ~(draft_data # <<>> /\ draft_data[1].response_type = "ROUTE_TO_TEAM")
  /\ escalate_data # <<>>
  /\ reason = NoneVal

\* a mutant that gives up the snooze when the attribute update failed
snooze_attempted_after_update(client, attribute_ok) == client /\ attribute_ok

\* the snooze has its own try after the one of the attribute update
snooze_attempted(client, attribute_ok) == client

FinalizeNodeOver(acks) ==
  /\ pc = "finalize"
  /\ Ran("finalize")
  /\ UNCHANGED << identity_vars, budget_vars, hops, actions_taken, actions, error, response,
                  escalation_reason, initialize, draft, validate, response_delivery, escalate,
                  data_vars, server_calls, cov_llm, plan_llm, plan_runs >>
  /\ IF StatusRaises(draft, escalate, escalation_reason)
     THEN /\ pc' = "crashed"
          /\ UNCHANGED << finalize, next_node, posts >>
     ELSE
       \E get_ok \in BOOLEAN, put_ok \in acks, snooze_ok \in acks :
         LET status == determine_melvin_status(draft, escalate, escalation_reason,
                                               response_delivery)
             ids == conversation_id # "" /\ melvin_admin_id # UNSET
             client == ids /\ env.INTERCOM_API_KEY
             update == IF client /\ get_ok
                       THEN <<[stage |-> "finalize", kind |-> "attribute", acked |-> put_ok]>>
                       ELSE <<>>
             snooze == IF snooze_attempted(client, get_ok /\ put_ok)
                       THEN <<[stage |-> "finalize", kind |-> "snooze", acked |-> snooze_ok]>>
                       ELSE <<>>
         IN /\ (~client => get_ok)
            /\ (snooze = <<>> => snooze_ok)
            /\ (~(client /\ get_ok) => put_ok)
            /\ posts' = posts \o update \o snooze
            /\ finalize' = <<[melvin_status |-> status,
                              status_updated |-> client /\ get_ok,
                              conversation_snoozed |-> snooze # <<>>]>>
            /\ next_node' = "end"
            \* g.add_edge("finalize", END)
            /\ pc' = "end"

FinalizeNode == FinalizeNodeOver(Acknowledged)

(***************************************************************************)
(* The graph                                                               *)
(***************************************************************************)
Next ==
  \/ InitializeNode
  \/ PlanNode
  \/ GatherNode
  \/ CoverageNode
  \/ ActionNode
  \/ DraftNode
  \/ ValidateNode
  \/ ResponseNode
  \/ EscalateNode
  \/ FinalizeNode

Spec == Init /\ [][Next]_vars

(***************************************************************************)
(* The graph on the empty plan, with a platform that may refuse a note,    *)
(* an attribute update or a snooze                                         *)
(***************************************************************************)
NextPlatform ==
  \/ InitializeNode
  \/ PlanNodeOver({<<>>})
  \/ GatherNode
  \/ CoverageNode
  \/ DraftNode
  \/ ValidateNodeOver(AnyAnswer)
  \/ ResponseNode
  \/ EscalateNodeOver(AnyAnswer)
  \/ FinalizeNodeOver(AnyAnswer)

SpecPlatform == Init /\ [][NextPlatform]_vars

(***************************************************************************)
(* Plan alone, over every plan the LLM may return                          *)
(***************************************************************************)
\* the state Initialize hands to Plan, for a contact with or without an
\* email and either setting of DRY_RUN
PlannerState(e, email) ==
  /\ pc = "plan"
  /\ env = e
  /\ conversation_id = TrustedConversation
  /\ user_email = email
  /\ melvin_admin_id = "admin-1"
  /\ conv_loaded = TRUE
  /\ available_tools = TagTools(ToolServerCatalog)
  /\ hops = <<>>
  /\ max_hops = DefaultMaxHops
  /\ max_actions = DefaultMaxActions
  /\ actions_taken = 0
  /\ actions = <<>>
  /\ next_node = UNSET
  /\ error = NO_ERROR
  /\ escalation_reason = UNSET
  /\ response = ""
  /\ initialize = <<[success |-> TRUE]>>
  /\ draft = <<>>
  /\ validate = <<>>
  /\ response_delivery = <<>>
  /\ escalate = <<>>
  /\ finalize = <<>>
  /\ tool_data = <<>>
  /\ docs_data = <<>>
  /\ server_calls = {}
  /\ posts = <<>>
  /\ cov_llm = <<>>
  /\ plan_llm = <<>>
  /\ plan_runs = 0
  /\ executed = {"initialize"}
  /\ last_stage = "initialize"
  /\ request = NoRequest
  /\ pool = NoPool
  /\ factory = NoFactory

InitPlan ==
  \E e \in Environments, email \in {TrustedEmail, NoneVal} :
    e.INTERCOM_API_KEY /\ e.MELVIN_ADMIN_ID /\ PlannerState(e, email)

PlanHarness == PlanNodeOver(HarnessPlans)

SpecPlan == InitPlan /\ [][PlanHarness]_vars

(***************************************************************************)
(* The hop loop Plan, Gather, Coverage over more plans and tool answers    *)
(***************************************************************************)
\* the plans the planner LLM returns in the hop loop
GatherPlans ==
  LET apps == [tool_name |-> APPS_TOOL, parameters |-> [user_email |-> TrustedEmail]]
      docs == [tool_name |-> DOCS_TOOL, parameters |-> [query |-> "q"]]
      act == [tool_name |-> ACTION_TOOL, parameters |-> [conversation_id |-> TrustedConversation]]
  IN { <<>>, <<act>>, <<apps>>, <<docs, docs>> }

\* all calls answer with content, all with no content, the first one fails,
\* or the last one fails
GatherOutcomes(n) ==
  {[i \in 1..n |-> "data"], [i \in 1..n |-> "empty"],
   [i \in 1..n |-> IF i = 1 THEN "error" ELSE "data"],
   [i \in 1..n |-> IF i = n THEN "error" ELSE "data"]}

InitGather ==
  PlannerState([INTERCOM_API_KEY |-> TRUE, MELVIN_ADMIN_ID |-> TRUE, DRY_RUN |-> "true"],
               TrustedEmail)

GatherHarness ==
  \/ PlanNodeOver(GatherPlans)
  \/ GatherNodeOver([n \in 0..MaxPlanCalls |-> GatherOutcomes(n)])
  \/ CoverageNode

SpecGather == InitGather /\ [][GatherHarness]_vars

(***************************************************************************)
(* Finalize alone, over every terminal state                               *)
(***************************************************************************)
EscalationSources == {"validate", "draft", "coverage", "initialization", "unknown"}

\* the texts state.escalation_reason may hold when Finalize runs: the key
\* absent, None, or a reason written by a stage
EscalationReasons ==
  {UNSET, NoneVal, LLMReason, HumanReason, PolicyReason, PolicyHumanReason}

DraftRecords ==
  {<<>>} \cup {<<[response |-> "reply text", response_type |-> t,
                  escalation_reason |-> NoneVal]>> : t \in {"REPLY", "ROUTE_TO_TEAM"}}

EscalateRecords(reason) ==
  {<<>>} \cup {<<[escalation_reason |-> IF reason = UNSET THEN "Unknown escalation reason"
                                        ELSE reason,
                  escalation_source |-> src, note_added |-> TRUE]>> :
                 src \in EscalationSources}

DeliveryRecords ==
  {<<>>} \cup {<<[success |-> d, intercom_delivered |-> d]>> : d \in BOOLEAN}

\* a state in which the graph enters Finalize
FinalizerState(d, esc, reason, delivery) ==
  /\ pc = "finalize"
  /\ env = [INTERCOM_API_KEY |-> TRUE, MELVIN_ADMIN_ID |-> TRUE, DRY_RUN |-> "true"]
  /\ conversation_id = TrustedConversation
  /\ user_email = TrustedEmail
  /\ melvin_admin_id = "admin-1"
  /\ conv_loaded = TRUE
  /\ available_tools = TagTools(ToolServerCatalog)
  /\ hops = <<>>
  /\ max_hops = DefaultMaxHops
  /\ max_actions = DefaultMaxActions
  /\ actions_taken = 0
  /\ actions = <<>>
  /\ next_node = "finalize"
  /\ error = NO_ERROR
  /\ escalation_reason = reason
  /\ response = ""
  /\ initialize = <<[success |-> TRUE]>>
  /\ draft = d
  /\ validate = <<>>
  /\ response_delivery = delivery
  /\ escalate = esc
  /\ finalize = <<>>
  /\ tool_data = <<>>
  /\ docs_data = <<>>
  /\ server_calls = {}
  /\ posts = <<>>
  /\ cov_llm = <<>>
  /\ plan_llm = <<>>
  /\ plan_runs = 0
  /\ executed = {"initialize"}
  /\ last_stage = "initialize"
  /\ request = NoRequest
  /\ pool = NoPool
  /\ factory = NoFactory

InitFinalize ==
  \E d \in DraftRecords, reason \in EscalationReasons, delivery \in DeliveryRecords :
    \E esc \in EscalateRecords(reason) : FinalizerState(d, esc, reason, delivery)

\* the Finalize executions so far: each one requests a snooze
FinalizeRuns == Cardinality({i \in 1..Len(posts) : posts[i].kind = "snooze"})

\* finalize_node is called again on the state it returned
FinalizeAgain ==
  /\ pc = "end" /\ finalize # <<>>
  /\ FinalizeRuns < MaxFinalizeRuns
  /\ pc' = "finalize"
  /\ UNCHANGED << identity_vars, budget_vars, hops, actions_taken, actions, next_node, error,
                  escalation_reason, response, record_vars, data_vars, server_calls, posts,
                  cov_llm, plan_llm, plan_runs, executed, last_stage >>

FinalizeHarness == FinalizeNode \/ FinalizeAgain

SpecFinalize == InitFinalize /\ [][FinalizeHarness]_vars

(***************************************************************************)
(* The messaging client: one call of _make_request                         *)
(***************************************************************************)
\* what requests.request / raise_for_status yield for one attempt: a 2xx
\* answer, an HTTPError for a 4xx/5xx answer, or a transport error
Answers ==
  {[kind |-> "ok", status |-> 200]}
    \cup {[kind |-> "http_error", status |-> s] : s \in {429, 404, 500}}
    \cup {[kind |-> "transport_error", status |-> 0]}

\* the substrings of str(e) the client looks for.  The text of an HTTPError
\* is "<status> Client Error: <reason> for url: <url>" and that of a
\* transport error names the URL too, so "429" is found when the URL of the
\* request (a conversation or contact id) contains these digits
error_text(a, url_has_429) ==
  (IF a.kind = "http_error" /\ a.status = 429 THEN {"429", "Too Many Requests"} ELSE {})
    \cup (IF url_has_429 THEN {"429"} ELSE {})

\* the status read from e.response; 0 stands for None
status_code(a) == IF a.kind = "http_error" THEN a.status ELSE 0

is_429_error(a, url_has_429) ==
  \/ status_code(a) = 429
  \/ "429" \in error_text(a, url_has_429)
  \/ "Too Many Requests" \in error_text(a, url_has_429)

\* a mutant that gives up one attempt earlier
may_retry_one_less(is_429, attempt) == is_429 /\ attempt < max_retries - 1

\* if is_429_error and attempt < max_retries: sleep, continue
may_retry(is_429, attempt) == is_429 /\ attempt < max_retries

graph_vars == << pc, env, conversation_id, user_email, melvin_admin_id, conv_loaded,
                 available_tools, hops, max_hops, max_actions, actions_taken, actions,
                 next_node, error, escalation_reason, response,
                 initialize, draft, validate, response_delivery, escalate, finalize,
                 tool_data, docs_data, server_calls, posts, cov_llm, plan_llm,
                 plan_runs, executed, last_stage >>

\* one iteration of the loop of _make_request
make_request_attempt ==
  /\ request.result = "pending"
  /\ Len(request.seen) <= max_retries
  /\ \E a \in Answers :
       LET attempt == Len(request.seen)
           result == IF a.kind = "ok" THEN "payload"
                     ELSE IF may_retry(is_429_error(a, request.url_has_429), attempt)
                     THEN (IF attempt < max_retries THEN "pending" ELSE NoneVal)
                     ELSE NoneVal
       IN request' = [request EXCEPT !.seen = Append(@, a), !.result = result]
  /\ UNCHANGED << graph_vars, pool, factory >>

\* a call of the client from a stage of a run that reached Finalize
InitRequest ==
  \E u \in BOOLEAN :
    /\ pc = "finalize"
    /\ env = [INTERCOM_API_KEY |-> TRUE, MELVIN_ADMIN_ID |-> TRUE, DRY_RUN |-> "true"]
    /\ conversation_id = TrustedConversation
    /\ user_email = TrustedEmail
    /\ melvin_admin_id = "admin-1"
    /\ conv_loaded = TRUE
    /\ available_tools = TagTools(ToolServerCatalog)
    /\ hops = <<>>
    /\ max_hops = DefaultMaxHops
    /\ max_actions = DefaultMaxActions
    /\ actions_taken = 0
    /\ actions = <<>>
    /\ next_node = "finalize"
    /\ error = "Initialization failed"
    /\ escalation_reason = "Initialization failed"
    /\ response = "apology"
    /\ initialize = <<[success |-> FALSE]>>
    /\ draft = <<>>
    /\ validate = <<>>
    /\ response_delivery = <<>>
    /\ escalate = <<[escalation_reason |-> "Initialization failed",
                     escalation_source |-> "initialization", note_added |-> FALSE]>>
    /\ finalize = <<>>
    /\ tool_data = <<>>
    /\ docs_data = <<>>
    /\ server_calls = {}
    /\ posts = <<>>
    /\ cov_llm = <<>>
    /\ plan_llm = <<>>
    /\ plan_runs = 0
    /\ executed = {"initialize", "escalate"}
    /\ last_stage = "escalate"
    /\ request = [url_has_429 |-> u, seen |-> <<>>, result |-> "pending"]
    /\ pool = NoPool
  /\ factory = NoFactory

SpecRequest == InitRequest /\ [][make_request_attempt]_vars

(***************************************************************************)
(* The evaluation harness: Pool.map of process_conversation over the ids   *)
(***************************************************************************)
\* number of conversation ids handed to run_evaluation
MaxConversations == 3

\* run_evaluation(..., num_workers: int = 3)
num_workers == 3

ConversationIds == {"conv-1", "conv-2"}

\* the result dict of process_conversation: the row of a run that returned,
\* or the row of the except branch when the run raised
process_conversation(conv_id, raised) ==
  [conversation_id |-> conv_id,
   error |-> IF raised THEN "run raised" ELSE "",
   success |-> ~raised]

\* a mutant that returns the results in the order the workers finished
map_results_as_completed(task, finished) ==
  [k \in 1..Len(finished) |-> task[finished[k]].result[1]]

\* Pool.map returns the results in the order of its input
map_results(task, finished) ==
  [i \in 1..Len(task) |-> task[i].result[1]]

Busy(w) == \E i \in 1..Len(pool.task) : pool.task[i].status = "running" /\ pool.task[i].worker = w

\* an idle worker process takes the next conversation id and builds the
\* initial state of its run
PoolDispatch ==
  /\ pool.phase = "map"
  /\ \E w \in 1..num_workers, i \in 1..Len(pool.task) :
       /\ ~Busy(w)
       /\ pool.task[i].status = "queued"
       /\ \A j \in 1..(i - 1) : pool.task[j].status # "queued"
       /\ pool' = [pool EXCEPT !.task[i] =
                     [status |-> "running", worker |-> w,
                      state |-> <<[conversation_id |-> pool.ids[i]]>>, result |-> <<>>]]
  /\ UNCHANGED << graph_vars, request, factory >>

\* a worker finishes its run: the run returned its final state or raised
PoolFinish ==
  /\ pool.phase = "map"
  /\ \E i \in 1..Len(pool.task), raised \in BOOLEAN :
       /\ pool.task[i].status = "running"
       /\ pool' = [pool EXCEPT
                     !.task[i].status = "done",
                     !.task[i].result =
                        <<process_conversation(pool.task[i].state[1].conversation_id, raised)>>,
                     !.finished = Append(@, i)]
  /\ UNCHANGED << graph_vars, request, factory >>

\* pool.map returned: the rows are written to the CSV file
PoolWrite ==
  /\ pool.phase = "map"
  /\ \A i \in 1..Len(pool.task) : pool.task[i].status = "done"
  /\ pool' = [pool EXCEPT !.rows = map_results(pool.task, pool.finished),
                          !.phase = "written"]
  /\ UNCHANGED << graph_vars, request, factory >>

InitEval ==
  \E ids \in SeqsUpTo(ConversationIds, MaxConversations) :
    /\ pc = "initialize"
    /\ env = [INTERCOM_API_KEY |-> TRUE, MELVIN_ADMIN_ID |-> TRUE, DRY_RUN |-> "true"]
    /\ conversation_id = TrustedConversation
    /\ user_email = UNSET
    /\ melvin_admin_id = UNSET
    /\ conv_loaded = FALSE
    /\ available_tools = <<>>
    /\ hops = <<>>
    /\ max_hops = DefaultMaxHops
    /\ max_actions = DefaultMaxActions
    /\ actions_taken = 0
    /\ actions = <<>>
    /\ next_node = UNSET
    /\ error = NO_ERROR
    /\ escalation_reason = UNSET
    /\ response = ""
    /\ initialize = <<>>
    /\ draft = <<>>
    /\ validate = <<>>
    /\ response_delivery = <<>>
    /\ escalate = <<>>
    /\ finalize = <<>>
    /\ tool_data = <<>>
    /\ docs_data = <<>>
    /\ server_calls = {}
    /\ posts = <<>>
    /\ cov_llm = <<>>
    /\ plan_llm = <<>>
    /\ plan_runs = 0
    /\ executed = {}
    /\ last_stage = "start"
    /\ request = NoRequest
    /\ factory = NoFactory
    /\ pool = [phase |-> "map", ids |-> ids,
               task |-> [i \in 1..Len(ids) |->
                           [status |-> "queued", worker |-> 0, state |-> <<>>, result |-> <<>>]],
               finished |-> <<>>, rows |-> <<>>]

NextEval == PoolDispatch \/ PoolFinish \/ PoolWrite

SpecEval == InitEval /\ [][NextEval]_vars

(***************************************************************************)
(* The tool-server client factory                                          *)
(***************************************************************************)
\* what an argument or an environment variable may hold: nothing, the empty
\* string, or a value
Settings == {NoneVal, "", "configured"}

\* Python's `not x` on an Optional[str]
Falsy(x) == x \in {NoneVal, ""}

\* `argument or os.getenv(NAME)`
or_getenv(argument, variable) == IF Falsy(argument) THEN variable ELSE argument

\* a mutant that checks the token before the base URL
create_mcp_client_token_first(base_url, auth_token, environ) ==
  LET b == or_getenv(base_url, environ.MCP_BASE_URL)
      a == or_getenv(auth_token, environ.MCP_AUTH_TOKEN)
  IN IF Falsy(a)
     THEN [raised |-> "MCP_AUTH_TOKEN environment variable is required", client |-> <<>>]
     ELSE IF Falsy(b)
     THEN [raised |-> "MCP_BASE_URL environment variable is required", client |-> <<>>]
     ELSE [raised |-> NoneVal, client |-> <<[base_url |-> b, auth_token |-> a]>>]

\* create_mcp_client: the ValueError it raises, or the client it constructs
create_mcp_client(base_url, auth_token, environ) ==
  LET b == or_getenv(base_url, environ.MCP_BASE_URL)
      a == or_getenv(auth_token, environ.MCP_AUTH_TOKEN)
  IN IF Falsy(b)
     THEN [raised |-> "MCP_BASE_URL environment variable is required", client |-> <<>>]
     ELSE IF Falsy(a)
     THEN [raised |-> "MCP_AUTH_TOKEN environment variable is required", client |-> <<>>]
     ELSE [raised |-> NoneVal, client |-> <<[base_url |-> b, auth_token |-> a]>>]

\* create_mcp_tools: MCPTools(create_mcp_client(base_url, auth_token))
create_mcp_tools(base_url, auth_token, environ) ==
  LET c == create_mcp_client(base_url, auth_token, environ)
  IN [raised |-> c.raised, client |-> c.client,
      tools |-> IF c.raised = NoneVal THEN <<[client |-> c.client[1]]>> ELSE <<>>]

\* the factory function returns or raises
FactoryCall ==
  /\ factory.phase = "call"
  /\ factory' = [factory EXCEPT
                   !.phase = "returned",
                   !.result = IF factory.wrapper = "tools"
                              THEN <<create_mcp_tools(factory.base_url, factory.auth_token,
                                                     factory.environ)>>
                              ELSE <<[tools |-> <<>>] @@
                                     create_mcp_client(factory.base_url, factory.auth_token,
                                                       factory.environ)>>]
  /\ UNCHANGED << graph_vars, request, pool >>

InitFactory ==
  \E wrapper \in {"client", "tools"}, base_url \in Settings, auth_token \in Settings,
     env_url \in Settings, env_token \in Settings :
    /\ pc = "initialize"
    /\ env = [INTERCOM_API_KEY |-> TRUE, MELVIN_ADMIN_ID |-> TRUE, DRY_RUN |-> "true"]
    /\ conversation_id = TrustedConversation
    /\ user_email = UNSET
    /\ melvin_admin_id = UNSET
    /\ conv_loaded = FALSE
    /\ available_tools = <<>>
    /\ hops = <<>>
    /\ max_hops = DefaultMaxHops
    /\ max_actions = DefaultMaxActions
    /\ actions_taken = 0
    /\ actions = <<>>
    /\ next_node = UNSET
    /\ error = NO_ERROR
    /\ escalation_reason = UNSET
    /\ response = ""
    /\ initialize = <<>>
    /\ draft = <<>>
    /\ validate = <<>>
    /\ response_delivery = <<>>
    /\ escalate = <<>>
    /\ finalize = <<>>
    /\ tool_data = <<>>
    /\ docs_data = <<>>
    /\ server_calls = {}
    /\ posts = <<>>
    /\ cov_llm = <<>>
    /\ plan_llm = <<>>
    /\ plan_runs = 0
    /\ executed = {}
    /\ last_stage = "start"
    /\ request = NoRequest
    /\ pool = NoPool
    /\ factory = [phase |-> "call", wrapper |-> wrapper,
                  base_url |-> base_url, auth_token |-> auth_token,
                  environ |-> [MCP_BASE_URL |-> env_url, MCP_AUTH_TOKEN |-> env_token],
                  result |-> <<>>]

SpecFactory == InitFactory /\ [][FactoryCall]_vars

(***************************************************************************)
(* Properties                                                              *)
(***************************************************************************)
\* the calls Plan retained, over all hops
RetainedCalls ==
  UNION {{hops[i].plan.tool_calls[j] : j \in 1..Len(hops[i].plan.tool_calls)} :
           i \in 1..Len(hops)}

\* the calls the planner LLM returned to the latest Plan execution
ReturnedCalls ==
  IF plan_llm = <<>> THEN {} ELSE {plan_llm[1][j] : j \in 1..Len(plan_llm[1])}

DeclaredProperties(tool_name) ==
  DOMAIN ToolByName(available_tools, tool_name).inputSchema.properties

\* C1: a call retained by Plan for a tool whose schema declares user_email
\* carries the contact's email from the state under that name, and one whose
\* schema declares conversation_id carries the state's conversation id,
\* whatever the LLM wrote there
C1_DeclaredIdentityIsTrusted ==
  \A c \in RetainedCalls :
    /\ "user_email" \in DeclaredProperties(c.tool_name) =>
         "user_email" \in DOMAIN c.parameters /\ c.parameters.user_email = user_email
    /\ "conversation_id" \in DeclaredProperties(c.tool_name) =>
         "conversation_id" \in DOMAIN c.parameters
           /\ c.parameters.conversation_id = conversation_id

\* a plan whose call carried the LLM's own user_email and conversation_id for
\* tools declaring them was retained
C1_Witness ==
  /\ last_stage = "plan"
  /\ \E c \in ReturnedCalls :
       c.tool_name = APPS_TOOL /\ "user_email" \in DOMAIN c.parameters
         /\ c.parameters.user_email # user_email
  /\ \E c \in ReturnedCalls :
       c.tool_name = ACTION_TOOL /\ "conversation_id" \in DOMAIN c.parameters
         /\ c.parameters.conversation_id # conversation_id
  /\ \E c \in RetainedCalls : c.tool_name = APPS_TOOL
  /\ \E c \in RetainedCalls : c.tool_name = ACTION_TOOL

\* C2: in every call retained by Plan each of user_email, conversation_id and
\* dry_run is absent or equal to the trusted value, also for a tool whose
\* schema does not declare the name
C2_InjectableAbsentOrTrusted ==
  \A c \in RetainedCalls :
    \A n \in {"user_email", "conversation_id", "dry_run"} :
      n \in DOMAIN c.parameters =>
        c.parameters[n] = injection_map(user_email, conversation_id, env.DRY_RUN)[n]

\* C3: the hop list never outgrows max_hops, and Coverage does not hand over
\* to Plan once the list is full
C3_HopsWithinBudget ==
  /\ Len(hops) <= max_hops
  /\ (last_stage = "coverage" /\ pc = "plan") => Len(hops) < max_hops

\* C4: actions_taken never exceeds max_actions, the Action stage is not
\* entered with the budget used up, and the counter equals the number of
\* recorded tool executions (each execution, successful or not, counts once)
C4_ActionsWithinBudget ==
  /\ actions_taken <= max_actions
  /\ pc = "action" => actions_taken < max_actions
  /\ actions_taken = Len(actions)

\* Coverage was told execute_action for a planned tool with the budget used
\* up, and went on to Draft
C4_Witness ==
  /\ last_stage = "coverage"
  /\ max_actions > 0 /\ actions_taken = max_actions
  /\ cov_llm # <<>> /\ cov_llm[1].next_action = "execute_action"
  /\ cov_llm[1].action_decision \in PlannedNames(hops[Len(hops)].plan.action_tool_calls)
  /\ pc = "draft"

\* C5: a request the Action stage sends names a tool of the hop's
\* action_tool_calls and carries the parameters Plan stored for that call
C5_ActionSendsPlannedCall ==
  \A sc \in server_calls :
    sc.stage = "action" =>
      LET planned == hops[sc.hop].plan.action_tool_calls
      IN /\ sc.tool_name \in PlannedNames(planned)
         /\ sc.parameters = FirstMatch(planned, sc.tool_name)[1].parameters

\* the Action stage sent a request for a call whose parameters Plan rewrote
C5_Witness ==
  \E sc \in server_calls :
    /\ sc.stage = "action"
    /\ sc.parameters.conversation_id = conversation_id
    /\ sc.parameters.dry_run = env.DRY_RUN

WasRouteToTeam == draft # <<>> /\ draft[1].response_type = "ROUTE_TO_TEAM"

ValidationNotPassed == validate # <<>> /\ ~validate[1].overall_passed

ReplyPosted == \E i \in 1..Len(posts) : posts[i].kind = "comment"

C8_PlanRunsWithinMaxHops == plan_runs <= max_hops

\* C9: a run that reached the end of the graph executed Finalize last
C9_EndsThroughFinalize == pc = "end" => last_stage = "finalize"

\* the routing target of the latest Coverage execution honours the LLM's
\* next_action outside the listed overrides
HonoursChoice(out) ==
  LET h == Len(hops)
      planned == hops[h].plan.action_tool_calls
  IN /\ out.next_action = "continue" => pc = "draft"
     /\ (out.next_action = "gather_more" /\ h < max_hops) => pc = "plan"
     /\ (out.next_action = "execute_action" /\ actions_taken < max_actions
           /\ out.action_decision \in PlannedNames(planned)) => pc = "action"
     /\ out.next_action = "escalate" => pc = "escalate"

CoverageChose(action) ==
  /\ hops # <<>> /\ hops[Len(hops)].coverage # <<>>
  /\ cov_llm # <<>> /\ cov_llm[1].next_action = action

\* C11: once the LLM answered gather_more on a full hop list, the stored
\* decision is escalate with the hop-limit reason, Coverage hands over to
\* Escalate, and Draft is not executed in the run
C11_GatherMoreAtLimitEscalates ==
  (CoverageChose("gather_more") /\ Len(hops) >= max_hops) =>
    /\ hops[Len(hops)].coverage[1].coverage_response.next_action = "escalate"
    /\ hops[Len(hops)].coverage[1].coverage_response.escalation_reason = MaxHopsReason
    /\ escalation_reason = MaxHopsReason
    /\ last_stage = "coverage" => pc = "escalate"
    /\ last_stage # "coverage" => "escalate" \in executed
    /\ "draft" \notin executed

\* a run ended after gather_more was answered on a full hop list
C11_Witness ==
  /\ CoverageChose("gather_more") /\ Len(hops) = max_hops
  /\ "escalate" \in executed
  /\ pc = "end"

\* the names of the last hop's action_tool_calls
ListedActionTools ==
  {hops[Len(hops)].plan.action_tool_calls[i].tool_name :
     i \in 1..Len(hops[Len(hops)].plan.action_tool_calls)}

DraftSucceeded == draft # <<>> /\ error # "Draft generation failed"

ValidationPassed == validate # <<>> /\ validate[1].overall_passed

C14_RouteToTeamEscalatesAfterDelivery ==
  (WasRouteToTeam /\ response_delivery # <<>> /\ response_delivery[1].intercom_delivered) =>
    /\ last_stage = "response" => pc = "escalate"
    /\ finalize # <<>> =>
         /\ escalate # <<>>
         /\ \E i \in 1..Len(posts) : posts[i].stage = "escalate"
         /\ finalize[1].melvin_status = "route_to_team"

\* C15: once Validate has run, a note with the verdict was sent to the
\* conversation by Validate, whatever the outcome
C15_ValidateAlwaysPostsNote ==
  validate # <<>> => \E i \in 1..Len(posts) : posts[i].stage = "validate"

\* C16: the label Finalize stores is the one the status mapping gives for
\* the draft kind, the escalate record's source and the delivery record,
\* whatever the escalation reason says
C16_StatusIsSpecMapping ==
  LET mapped ==
        IF draft # <<>> /\ draft[1].response_type = "ROUTE_TO_TEAM" THEN "route_to_team"
        ELSE IF escalate # <<>>
        THEN CASE escalate[1].escalation_source = "validate" -> "validation_failed"
               [] escalate[1].escalation_source = "draft" -> "response_failed"
               [] escalate[1].escalation_source = "coverage" -> "route_to_team"
               [] OTHER -> "error"
        ELSE IF response_delivery # <<>>
        THEN IF response_delivery[1].intercom_delivered THEN "success" ELSE "message_failed"
        ELSE "error"
  IN /\ pc # "crashed"
     /\ finalize # <<>> => finalize[1].melvin_status = mapped

\* the hop's coverage record says Coverage handed the run to Escalate
CoverageEscalated ==
  /\ hops # <<>> /\ hops[Len(hops)].coverage # <<>>
  /\ hops[Len(hops)].coverage[1].next_node = "escalate"
  /\ hops[Len(hops)].coverage[1].coverage_response.next_action = "escalate"

\* C17: after Coverage handed the run to Escalate, the Escalate record names
\* coverage as its source and Finalize reports route_to_team
C17_CoverageEscalationIsRouteToTeam ==
  CoverageEscalated =>
    /\ pc # "crashed"
    /\ escalate # <<>> => escalate[1].escalation_source = "coverage"
    /\ finalize # <<>> => finalize[1].melvin_status = "route_to_team"

\* C18: after a failed Draft the run goes to Escalate without Validate or
\* Response, the Escalate record names draft as its source and Finalize
\* reports response_failed
C18_DraftFailureIsResponseFailed ==
  error = "Draft generation failed" =>
    /\ last_stage = "draft" => pc = "escalate"
    /\ "validate" \notin executed /\ "response" \notin executed
    /\ escalate # <<>> => escalate[1].escalation_source = "draft"
    /\ finalize # <<>> => finalize[1].melvin_status = "response_failed"

InitializeFailed == initialize # <<>> /\ ~initialize[1].success

\* C19: each error cause of Initialize leaves a record with success = false
\* and state.error set; then none of Plan, Gather, Coverage, Draft runs,
\* Escalate follows and Finalize reports error.  A record with success =
\* true comes with a conversation that has a message or a subject
C19_InitializeFailureEscalates ==
  /\ "initialize" \in executed => initialize # <<>>
  /\ ("initialize" \in executed
        /\ (conversation_id = "" \/ ~env.INTERCOM_API_KEY \/ ~conv_loaded
               \/ available_tools = <<>>)) => InitializeFailed
  /\ InitializeFailed =>
       /\ error # NO_ERROR
       /\ executed \cap {"plan", "gather", "coverage", "action", "draft"} = {}
       /\ last_stage = "initialize" => pc = "escalate"
       /\ pc # "crashed"
       /\ finalize # <<>> =>
            "escalate" \in executed /\ finalize[1].melvin_status = "error"
  /\ (initialize # <<>> /\ initialize[1].success) =>
       /\ conv_loaded
       /\ last_stage = "initialize" => error = NO_ERROR /\ pc = "plan"

\* the tool catalog could not be fetched for a loaded conversation, and the
\* run ended with the label error
C19_Witness ==
  /\ InitializeFailed /\ conv_loaded /\ available_tools = <<>>
  /\ finalize # <<>> /\ finalize[1].melvin_status = "error"
  /\ pc = "end"

\* C20: a failure of the Plan or Gather stage as a whole hands the run to
\* Escalate
C20_PlanGatherFailureEscalates ==
  /\ (last_stage = "plan" /\ error = "Plan generation failed" /\ plan_llm = <<>>) =>
       pc = "escalate"
  /\ (last_stage = "gather" /\ error = "Gather node error") => pc = "escalate"

\* C21: a Response execution that did not deliver stores a delivery record
\* with intercom_delivered = false and hands the run to Escalate, which runs
\* before Finalize; a delivered REPLY goes to Finalize and Escalate does not
\* run
C21_FailedDeliveryEscalates ==
  /\ "response" \in executed => response_delivery # <<>>
  /\ (response_delivery # <<>> /\ ~response_delivery[1].intercom_delivered) =>
       /\ next_node = "escalate" \/ last_stage # "response"
       /\ last_stage = "response" => pc = "escalate"
       /\ finalize # <<>> => "escalate" \in executed
  /\ (response_delivery # <<>> /\ response_delivery[1].intercom_delivered
        /\ ~WasRouteToTeam) =>
       /\ last_stage = "response" => pc = "finalize"
       /\ "escalate" \notin executed

RateLimited(a) == a.kind = "http_error" /\ a.status = 429

AllRateLimited(answers) == \A i \in 1..Len(answers) : RateLimited(answers[i])

\* C22: a call of the messaging client whose answers are up to three 429s is
\* still being retried, one whose answers are up to three 429s and then a
\* success returns the payload, and a fourth 429 ends it with None; no call
\* makes more than four attempts
C22_RateLimitRetriedThreeTimes ==
  request.result # "none" =>
    LET seen == request.seen
        n == Len(seen)
    IN /\ n <= max_retries + 1
       /\ (AllRateLimited(seen) /\ n <= max_retries) => request.result = "pending"
       /\ (n >= 1 /\ AllRateLimited(SubSeq(seen, 1, n - 1)) /\ seen[n].kind = "ok") =>
            request.result = "payload"
       /\ (AllRateLimited(seen) /\ n = max_retries + 1) => request.result = NoneVal

\* three 429s and then a success: the call returned the payload
C22_Witness ==
  /\ request.result = "payload"
  /\ Len(request.seen) = max_retries + 1
  /\ AllRateLimited(SubSeq(request.seen, 1, max_retries))

\* C23: an answer that is an error other than a 429 ends the call at once
\* with None, whatever the URL of the request
C23_OtherErrorsNotRetried ==
  request.result # "none" =>
    \A i \in 1..Len(request.seen) :
      (request.seen[i].kind # "ok" /\ ~RateLimited(request.seen[i])) =>
        i = Len(request.seen) /\ request.result = NoneVal

\* the calls of the LLM's plan that name a known tool and whose sanitised
\* parameters validate against the tool's schema, sanitised, in plan order
RECURSIVE ValidCallsOf(_)
ValidCallsOf(tool_calls) ==
  IF tool_calls = <<>> THEN <<>>
  ELSE
    LET tc == Head(tool_calls)
        rest == ValidCallsOf(Tail(tool_calls))
    IN IF tc.tool_name \notin ToolNames(available_tools) THEN rest
       ELSE
         LET input_schema == ToolByName(available_tools, tc.tool_name).inputSchema
             s == sanitize_tool_params(tc.parameters, input_schema,
                                       injection_map(user_email, conversation_id, env.DRY_RUN))
         IN IF s.ok /\ SchemaValid(s.params, input_schema)
            THEN <<[tool_name |-> tc.tool_name, parameters |-> s.params]>> \o rest
            ELSE rest

\* C24: every call Plan retained names a tool of available_tools and its
\* parameters validate against that tool's input schema; the retained list
\* is the LLM's list without the calls failing either check, in the LLM's
\* order
C24_RetainedCallsAreValid ==
  /\ \A c \in RetainedCalls :
       /\ c.tool_name \in ToolNames(available_tools)
       /\ SchemaValid(c.parameters, ToolByName(available_tools, c.tool_name).inputSchema)
  /\ (last_stage = "plan" /\ plan_llm # <<>>) =>
       hops[Len(hops)].plan.tool_calls = ValidCallsOf(plan_llm[1])

RECURSIVE IsSubSeq(_, _)
\* s is t with some elements left out
IsSubSeq(s, t) ==
  IF s = <<>> THEN TRUE
  ELSE IF t = <<>> THEN FALSE
  ELSE IF Head(s) = Head(t) THEN IsSubSeq(Tail(s), Tail(t))
  ELSE IsSubSeq(s, Tail(t))

ToolTypeOf(c) == ToolByName(available_tools, c.tool_name).tool_type

\* C25: in every hop gather_tool_calls and action_tool_calls split
\* tool_calls: each is tool_calls with elements left out, together they have
\* as many calls as tool_calls, action_tool_calls holds calls of an action
\* type only and gather_tool_calls none
C25_PlanListsPartitionToolCalls ==
  \A h \in 1..Len(hops) :
    LET p == hops[h].plan
    IN /\ IsSubSeq(p.gather_tool_calls, p.tool_calls)
       /\ IsSubSeq(p.action_tool_calls, p.tool_calls)
       /\ Len(p.gather_tool_calls) + Len(p.action_tool_calls) = Len(p.tool_calls)
       /\ \A i \in 1..Len(p.action_tool_calls) : IsActionType(ToolTypeOf(p.action_tool_calls[i]))
       /\ \A i \in 1..Len(p.gather_tool_calls) : ~IsActionType(ToolTypeOf(p.gather_tool_calls[i]))

\* Plan retained an action call followed by a gather call
C25_Witness ==
  /\ last_stage = "plan" /\ Len(hops) = 1
  /\ Len(hops[1].plan.tool_calls) = 2
  /\ hops[1].plan.tool_calls[1].tool_name = ACTION_TOOL
  /\ hops[1].plan.action_tool_calls = <<hops[1].plan.tool_calls[1]>>
  /\ hops[1].plan.gather_tool_calls = <<hops[1].plan.tool_calls[2]>>

\* the parameters of a call of the LLM's plan, sanitised for its tool
SanitizedParams(params, tool_name) ==
  sanitize_tool_params(params, ToolByName(available_tools, tool_name).inputSchema,
                       injection_map(user_email, conversation_id, env.DRY_RUN))

\* C26: sanitising parameters that came out of the sanitiser returns them
\* unchanged and raises nothing
C26_SanitizeIdempotent ==
  \A c \in ReturnedCalls :
    (c.tool_name \in ToolNames(available_tools) /\ SanitizedParams(c.parameters, c.tool_name).ok) =>
      LET once == SanitizedParams(c.parameters, c.tool_name).params
          twice == SanitizedParams(once, c.tool_name)
      IN twice.ok /\ twice.params = once

\* the LLM's plan had a call whose parameters the sanitiser changed
C26_Witness ==
  \E c \in ReturnedCalls :
    /\ c.tool_name = ACTION_TOOL
    /\ SanitizedParams(c.parameters, c.tool_name).ok
    /\ "conversation_id" \in DOMAIN c.parameters
    /\ SanitizedParams(c.parameters, c.tool_name).params # c.parameters

\* C27: a Finalize execution on a state that already has a finalize record
\* stores the same label again
C27_FinalizeLabelIdempotent ==
  [][(pc = "finalize" /\ finalize # <<>>) =>
       (pc' = "end" /\ finalize'[1].melvin_status = finalize[1].melvin_status)]_vars

\* Finalize ran twice on a terminal state
C27_Witness ==
  /\ pc = "end" /\ finalize # <<>>
  /\ FinalizeRuns = 2
  /\ finalize[1].melvin_status = "validation_failed"

\* the hop Gather is about to run on
CurrentPlan == hops[Len(hops)].plan

StoredGather == IF hops = <<>> THEN {} ELSE {hops[Len(hops)].gather[i] : i \in 1..Len(hops[Len(hops)].gather)}

SuccessfulInvocations(t) ==
  {<<h, i>> \in (1..Len(hops)) \X (1..MaxPlanCalls) :
     /\ hops[h].gather # <<>>
     /\ i <= Len(hops[h].gather[1].tool_results)
     /\ hops[h].gather[1].tool_results[i].tool_name = t
     /\ hops[h].gather[1].tool_results[i].success}

\* the most recent of a non-empty set of invocations
MostRecent(S) ==
  CHOOSE x \in S : \A y \in S : y[1] < x[1] \/ (y[1] = x[1] /\ y[2] <= x[2])

\* the tools of gather type other than the documentation search
StoredGatherTools ==
  {t \in ToolNames(available_tools) :
     t # DOCS_TOOL /\ ~IsActionType(ToolByName(available_tools, t).tool_type)}

\* C30: tool_data[t] is the payload of the most recent successful
\* invocation of t, and t has no entry when it never succeeded
C30_ToolDataIsLastSuccessfulPayload ==
  \A t \in StoredGatherTools :
    IF SuccessfulInvocations(t) = {}
    THEN t \notin DOMAIN tool_data
    ELSE LET x == MostRecent(SuccessfulInvocations(t))
         IN /\ t \in DOMAIN tool_data
            /\ tool_data[t] = hops[x[1]].gather[1].tool_results[x[2]].data

\* the documentation searches of the run that succeeded with content, as
\* <<hop, position>>
StoredSearches ==
  {x \in SuccessfulInvocations(DOCS_TOOL) :
     hops[x[1]].gather[1].tool_results[x[2]].data # <<>>}

\* C31: every documentation search that succeeded with content has its
\* payload in docs_data under the key of its query and its hop
C31_DocsSearchesNeverCollide ==
  \A x \in StoredSearches :
    LET data == hops[x[1]].gather[1].tool_results[x[2]].data
        key == <<data[1].query, x[1]>>
    IN key \in DOMAIN docs_data /\ docs_data[key] = data

\* some Action execution of the run invoked its tool and the tool failed
ActionFailed == \E i \in 1..Len(actions) : ~actions[i].success

\* C32: an Action step that invokes its tool requests one audit note; when
\* the tool succeeded the next stage is Coverage on the same hop, when it
\* failed the next stage is Escalate with the reason text that names the
\* tool and the error, whatever the answer to the note; and once an action
\* has failed only Escalate and Finalize run
C32_ActionRoutesByOutcome ==
  /\ [][(pc = "action" /\ Len(actions') = Len(actions) + 1) =>
          LET a == actions'[Len(actions')]
          IN /\ Len(posts') = Len(posts) + 1
             /\ posts'[Len(posts')].stage = "action"
             /\ posts'[Len(posts')].kind = "note"
             /\ IF a.success
                THEN pc' = "coverage" /\ hops' = hops
                ELSE /\ pc' = "escalate"
                     /\ escalation_reason' = action_failure_reason(a.tool_name, ActionError)]_vars
  /\ [](ActionFailed => pc \in {"escalate", "finalize", "end"})

\* the tool of an Action execution failed, the audit note was not
\* acknowledged, and the run is about to escalate
C32_Witness ==
  /\ last_stage = "action" /\ pc = "escalate"
  /\ ActionFailed
  /\ posts # <<>> /\ posts[Len(posts)].stage = "action" /\ ~posts[Len(posts)].acked

\* C33: every Escalate step stores an escalate record and hands the run to
\* Finalize, whether the note was acknowledged, refused or not sent
C33_EscalateAlwaysReachesFinalize ==
  [][pc = "escalate" => (escalate' # <<>> /\ pc' = "finalize")]_vars

\* Escalate ran without the identifiers of the conversation and sent no note
C33_Witness ==
  /\ last_stage = "escalate" /\ pc = "finalize"
  /\ escalate # <<>> /\ ~escalate[1].note_added
  /\ next_node = "end"

\* the requests of the step just taken
NewPosts == SubSeq(posts', Len(posts) + 1, Len(posts'))

\* the Finalize step just taken had a failed attribute update or snooze
FinalizeRequestFailed ==
  /\ finalize' # <<>>
  /\ \/ \E i \in 1..Len(NewPosts) : ~NewPosts[i].acked
     \/ (NewPosts # <<>> /\ ~finalize'[1].status_updated)

\* C34: a Finalize step with a failed attribute update or a failed snooze
\* still requests the snooze, stores a finalize record with the status
\* label and ends the run
C34_FinalizeRequestFailureDoesNotFailRun ==
  [][(pc = "finalize" /\ FinalizeRequestFailed) =>
       /\ NewPosts[Len(NewPosts)].kind = "snooze"
       /\ finalize'[1].melvin_status =
            determine_melvin_status(draft, escalate, escalation_reason, response_delivery)
       /\ pc' = "end"]_vars

\* Finalize ended the run although the attribute update was refused
C34_Witness ==
  /\ pc = "end" /\ finalize # <<>>
  /\ \E i \in 1..Len(posts) : posts[i].kind = "attribute" /\ ~posts[i].acked
  /\ posts[Len(posts)].kind = "snooze"

\* C35: when run_evaluation writes the rows there is one row per
\* conversation id, in input order, and row i is the result of the run of
\* conversation id i and of no other run; while the pool works no task is
\* run by two workers and no worker runs two tasks
C35_EvalRunsIndependent ==
  /\ pool.phase # "none" =>
       \A i, j \in 1..Len(pool.task) :
         (i # j /\ pool.task[i].status = "running" /\ pool.task[j].status = "running")
            => pool.task[i].worker # pool.task[j].worker
  /\ pool.phase = "written" =>
       /\ Len(pool.rows) = Len(pool.ids)
       /\ \A i \in 1..Len(pool.ids) :
            /\ pool.rows[i].conversation_id = pool.ids[i]
            /\ pool.rows[i] = pool.task[i].result[1]

\* three runs finished in an order other than the input order, one of them
\* raised, and the rows are written
C35_Witness ==
  /\ pool.phase = "written"
  /\ Len(pool.ids) = 3
  /\ pool.finished = <<3, 1, 2>>
  /\ ~pool.rows[3].success /\ pool.rows[1].success
  /\ pool.ids[1] # pool.ids[3]

\* neither the argument nor the environment variable holds a value
Absent(argument, variable) == Falsy(argument) /\ Falsy(variable)

\* C36: a returned factory call without a base URL raised the ValueError
\* naming MCP_BASE_URL, one with a base URL and without a token raised the
\* one naming MCP_AUTH_TOKEN, and on either failure neither a client nor a
\* tools wrapper was constructed
C36_FactoryNamesMissingVariable ==
  factory.phase = "returned" =>
    LET r == factory.result[1]
        no_url == Absent(factory.base_url, factory.environ.MCP_BASE_URL)
        no_token == Absent(factory.auth_token, factory.environ.MCP_AUTH_TOKEN)
    IN /\ no_url =>
            /\ r.raised = "MCP_BASE_URL environment variable is required"
            /\ r.client = <<>> /\ r.tools = <<>>
       /\ (~no_url /\ no_token) =>
            /\ r.raised = "MCP_AUTH_TOKEN environment variable is required"
            /\ r.client = <<>> /\ r.tools = <<>>
       /\ (~no_url /\ ~no_token) => (r.raised = NoneVal /\ r.client # <<>>)

\* create_mcp_tools was called with neither variable set and raised for the
\* base URL
C36_Witness ==
  /\ factory.phase = "returned"
  /\ factory.wrapper = "tools"
  /\ factory.base_url = NoneVal /\ factory.auth_token = NoneVal
  /\ factory.environ = [MCP_BASE_URL |-> NoneVal, MCP_AUTH_TOKEN |-> NoneVal]
  /\ factory.result[1].raised = "MCP_BASE_URL environment variable is required"

\* the next_action values coverage_node has a branch for
KnownNextActions == {"continue", "gather_more", "execute_action", "escalate"}

\* C37: every Coverage step hands the run to Draft, Plan, Action or
\* Escalate; a Coverage step that failed, found no hop record or got a
\* next_action it has no branch for hands it to Escalate
C37_CoverageDecidesRouting ==
  [][pc = "coverage" =>
       /\ pc' \in {"draft", "plan", "action", "escalate"}
       /\ (cov_llm' = <<>> \/ cov_llm'[1].next_action \notin KnownNextActions)
            => pc' = "escalate"]_vars

\* the platform acknowledged a request of that stage and kind
Acked(stage, kind) ==
  \E i \in 1..Len(posts) : posts[i].stage = stage /\ posts[i].kind = kind /\ posts[i].acked

\* C38: a flag that records an acknowledgement is true only if the platform
\* acknowledged the request it stands for
C38_AcknowledgementFlagsTruthful ==
  /\ (escalate # <<>> /\ escalate[1].note_added) => Acked("escalate", "note")
  /\ (validate # <<>> /\ validate[1].validation_note_added) => Acked("validate", "note")
  /\ (finalize # <<>> /\ finalize[1].status_updated) => Acked("finalize", "attribute")
  /\ (finalize # <<>> /\ finalize[1].conversation_snoozed) => Acked("finalize", "snooze")

\* the requests of the run that post something the user can see
UserVisiblePosts == {i \in 1..Len(posts) : posts[i].kind = "comment"}

\* C39: the run requests at most one user-visible message, and only from
\* Response; what Validate, Action and Escalate post is a note; after an
\* escalation without a delivered reply no user-visible message was
\* acknowledged
C39_OnlyResponseSpeaksToUser ==
  /\ Cardinality(UserVisiblePosts) <= 1
  /\ \A i \in UserVisiblePosts : posts[i].stage = "response"
  /\ \A i \in 1..Len(posts) :
       posts[i].stage \in {"validate", "action", "escalate"} => posts[i].kind = "note"
  /\ (escalate # <<>> /\ (response_delivery = <<>> \/ ~response_delivery[1].intercom_delivered))
       => \A i \in UserVisiblePosts : ~posts[i].acked

\* a run that posted the validation note and the escalation note ended
\* without a reply
C39_Witness ==
  /\ pc = "end"
  /\ \E i \in 1..Len(posts) : posts[i].stage = "validate"
  /\ \E i \in 1..Len(posts) : posts[i].stage = "escalate"
  /\ UserVisiblePosts = {}

\* C40: actions_taken is the number of action records; an Action step
\* either appends one record, with the number of the current hop and the
\* outcome of the tool, and adds one to the counter, or changes neither
C40_ActionsTakenCountsRecords ==
  /\ [](actions_taken = Len(actions))
  /\ [][pc = "action" =>
          \/ actions' = actions /\ actions_taken' = actions_taken /\ server_calls' = server_calls
          \/ /\ Len(actions') = Len(actions) + 1
             /\ SubSeq(actions', 1, Len(actions)) = actions
             /\ actions'[Len(actions')].hop_number = hops[Len(hops)].hop_number
             /\ actions'[Len(actions')].success = (next_node' = "coverage")
             /\ actions_taken' = actions_taken + 1
             /\ server_calls' # server_calls]_vars

\* an Action execution invoked its tool, the tool failed, and the record
\* and the counter show one action
C40_Witness ==
  /\ last_stage = "action"
  /\ actions_taken = 1 /\ Len(actions) = 1
  /\ ~actions[1].success /\ actions[1].hop_number = Len(hops)

====
